---- MODULE Spec2Model ----
(***************************************************************************)
(* A model of the chess engine core: the coordinate model                  *)
(* (piece/position.py), the piece model and its move generation            *)
(* (piece/abstract.py, piece/pieces.py), the piece factory                 *)
(* (piece/creators.py) and the board (board.py).                           *)
(*                                                                         *)
(* Python objects are modelled by value plus identity where identity       *)
(* matters: a Piece object is an index into the heap `pieces`, and the     *)
(* board's dict `_grid` is the sequence of its (key, piece) items in       *)
(* insertion order, as a Python dict keeps them.  A PiecePosition is the   *)
(* record [row, column] where column is the ChessFile's index.  A call     *)
(* that may raise returns Return(v) or Raise(e).  An Optional value is     *)
(* None (the empty tuple) or Some(x) (a one-element tuple).                *)
(***************************************************************************)
EXTENDS Integers, Sequences, FiniteSets, TLC

VARIABLES
    grid,      \* Board._grid: sequence of [key, piece] items, insertion order
    pieces,    \* the heap of Piece objects: pieces[id] is the object's fields
    err,       \* the exception the last call raised, "" when it returned
    nmoves,    \* number of move_piece calls made so far
    nsetups,   \* number of setup_initial_positions calls made after __init__
    arg,       \* the arguments of the coordinate conversion under test
    result     \* what the last query returned: [call, ret]

vars == <<grid, pieces, err, nmoves, nsetups, arg, result>>

-----------------------------------------------------------------------------
(* Bounds of the model.                                                    *)

\* at most this many move_piece calls in a behaviour
MaxMoves == 2
\* at most this many setup_initial_positions calls after construction
MaxSetups == 1
\* move_piece is called on the first MaxSquares squares of the enumeration
\* InputSquare (a2, a7, a3, a8, a6, a1, a4, a5, b2, ..)
MaxSquares == 4
\* where the pieces' own methods are called as well, move_piece and they are
\* called on the first MaxPieceSquares squares of InputSquare
MaxPieceSquares == 2
\* a str given as a file has at most this many characters
MaxStrLen == 2
\* how many move_piece calls the threads start in all
MaxCalls == 3
\* how many threads call move_piece on the one board
MaxThreads == 2
\* how many squares the threads' calls choose from
MaxCallSquares == 3

-----------------------------------------------------------------------------
(* Python values.                                                          *)

None == <<>>
Some(x) == <<x>>

Return(v) == [exc |-> "", val |-> v]
Raise(e) == [exc |-> e, val |-> None]

\* an int or a str argument of ChessFile(value); a str is its characters
PyInt(n) == [type |-> "int", v |-> n]
PyStr(s) == [type |-> "str", v |-> s]

-----------------------------------------------------------------------------
(* piece/position.py                                                       *)

START_ROW_COL_INDEX == 1
END_ROW_COL_INDEX == 8
START_BOARD_INDEX == 1
END_BOARD_INDEX == 64

\* ChessFile._letters
letters == <<"a", "b", "c", "d", "e", "f", "g", "h">>

\* a lower() that leaves every character as it is
lower_nothing(s) == s

\* str.lower() on the characters the model uses
lower(s) ==
    LET up == <<"A", "B", "C", "D", "E", "F", "G", "H">>
        low(ch) == IF \E i \in 1..Len(up) : up[i] = ch
                   THEN letters[CHOOSE i \in 1..Len(up) : up[i] = ch]
                   ELSE ch
    IN  [i \in 1..Len(s) |-> low(s[i])]

\* the offsets at which s occurs in t as a contiguous substring (0-based)
occurrences(s, t) ==
    {k \in 0..(Len(t) - Len(s)) : \A i \in 1..Len(s) : t[k + i] = s[i]}

\* `s in t` for two strs
str_in(s, t) == occurrences(s, t) # {}

\* t.index(s) for a str s that occurs in t
str_index(s, t) == CHOOSE k \in occurrences(s, t) : \A j \in occurrences(s, t) : k <= j

\* ChessFile.__init__: the file's index, or ChessFileError
ChessFile(value) ==
    IF value.type = "str"
    THEN LET v == lower(value.v)
         IN  IF ~str_in(v, letters)
             THEN Raise("ChessFileError")
             ELSE Return(str_index(v, letters) + 1)
    ELSE IF value.type = "int"
    THEN IF ~(START_ROW_COL_INDEX <= value.v /\ value.v <= END_ROW_COL_INDEX)
         THEN Raise("ChessFileError")
         ELSE Return(value.v)
    ELSE Raise("ChessFileError")

\* validate_axis that takes 0 for a row or column of the board
validate_axis_accepts_zero(value) == 0 <= value /\ value <= END_ROW_COL_INDEX

\* PiecePosition.validate_axis
validate_axis(value) == START_ROW_COL_INDEX <= value /\ value <= END_ROW_COL_INDEX

\* PiecePosition.validate_position_number
validate_position_number(value) == START_BOARD_INDEX <= value /\ value <= END_BOARD_INDEX

\* PiecePosition.__init__: the row setter, then the column setter
PiecePosition(row, column) ==
    IF ~validate_axis(row)
    THEN Raise("PiecePositionError")
    ELSE LET file == ChessFile(column)
         IN  IF file.exc # ""
             THEN Raise(file.exc)
             ELSE Return([row |-> row, column |-> file.val])

\* cls(r, c) inside the generators and offset(): the arguments are ints
cls(r, c) == PiecePosition(r, PyInt(c)).val

convert_row_column_to_position_number(row, column) ==
    IF ~validate_axis(row)
    THEN Raise("PiecePositionError")
    ELSE IF ~validate_axis(column)
    THEN Raise("PiecePositionError")
    ELSE Return((row - 1) * 8 + column)

\* the inverse conversion without the shift to a 0-based index
convert_position_number_unshifted(position_number) ==
    IF ~validate_position_number(position_number)
    THEN Raise("PiecePositionError")
    ELSE Return(<<(position_number \div 8) + 1, position_number % 8>>)

convert_position_number_to_row_column(position_number) ==
    IF ~validate_position_number(position_number)
    THEN Raise("PiecePositionError")
    ELSE Return(<<((position_number - 1) \div 8) + 1, ((position_number - 1) % 8) + 1>>)

\* PiecePosition.get_position_number
get_position_number(pos) ==
    convert_row_column_to_position_number(pos.row, pos.column).val

\* PiecePosition.__eq__
pos_eq(a, b) == a.row = b.row /\ a.column = b.column

\* list(range(start, stop))
range(start, stop) ==
    [i \in 1..(IF stop > start THEN stop - start ELSE 0) |-> start + i - 1]

\* list(range(start, stop, -1))
range_down(start, stop) ==
    [i \in 1..(IF start > stop THEN start - stop ELSE 0) |-> start - i + 1]

move_up(pos) ==
    LET rs == range(pos.row + 1, 9)
    IN  [i \in 1..Len(rs) |-> cls(rs[i], pos.column)]

move_down(pos) ==
    LET rs == range_down(pos.row - 1, 0)
    IN  [i \in 1..Len(rs) |-> cls(rs[i], pos.column)]

move_right(pos) ==
    LET cs == range(pos.column + 1, 9)
    IN  [i \in 1..Len(cs) |-> cls(pos.row, cs[i])]

\* move_left that stops one square before the a-file
move_left_stops_early(pos) ==
    LET cs == range_down(pos.column - 1, 1)
    IN  [i \in 1..Len(cs) |-> cls(pos.row, cs[i])]

move_left(pos) ==
    LET cs == range_down(pos.column - 1, 0)
    IN  [i \in 1..Len(cs) |-> cls(pos.row, cs[i])]

RECURSIVE up_right_loop(_, _)
up_right_loop(r, c) ==
    IF r <= END_ROW_COL_INDEX /\ c <= END_ROW_COL_INDEX
    THEN <<cls(r, c)>> \o up_right_loop(r + 1, c + 1)
    ELSE <<>>

move_up_right(pos) == up_right_loop(pos.row + 1, pos.column + 1)

\* the up-left loop that stops one square before the a-file
RECURSIVE up_left_loop_stops_early(_, _)
up_left_loop_stops_early(r, c) ==
    IF r <= END_ROW_COL_INDEX /\ c > START_ROW_COL_INDEX
    THEN <<cls(r, c)>> \o up_left_loop_stops_early(r + 1, c - 1)
    ELSE <<>>

RECURSIVE up_left_loop(_, _)
up_left_loop(r, c) ==
    IF r <= END_ROW_COL_INDEX /\ c >= START_ROW_COL_INDEX
    THEN <<cls(r, c)>> \o up_left_loop(r + 1, c - 1)
    ELSE <<>>

move_up_left(pos) == up_left_loop(pos.row + 1, pos.column - 1)

RECURSIVE down_right_loop(_, _)
down_right_loop(r, c) ==
    IF r >= START_ROW_COL_INDEX /\ c <= END_ROW_COL_INDEX
    THEN <<cls(r, c)>> \o down_right_loop(r - 1, c + 1)
    ELSE <<>>

move_down_right(pos) == down_right_loop(pos.row - 1, pos.column + 1)

RECURSIVE down_left_loop(_, _)
down_left_loop(r, c) ==
    IF r >= START_ROW_COL_INDEX /\ c >= START_ROW_COL_INDEX
    THEN <<cls(r, c)>> \o down_left_loop(r - 1, c - 1)
    ELSE <<>>

move_down_left(pos) == down_left_loop(pos.row - 1, pos.column - 1)

\* offset() that takes the last row and the last column for off the board
offset_excludes_edge(pos, off) ==
    LET dr == off[1]
        dc == off[2]
        new_row == pos.row + dr
        new_col == pos.column + dc
    IN  IF /\ START_ROW_COL_INDEX <= new_row /\ new_row < END_ROW_COL_INDEX
           /\ START_ROW_COL_INDEX <= new_col /\ new_col < END_ROW_COL_INDEX
        THEN Some(cls(new_row, new_col))
        ELSE None

\* PiecePosition.offset: Some(position) or None
offset(pos, off) ==
    LET dr == off[1]
        dc == off[2]
        new_row == pos.row + dr
        new_col == pos.column + dc
    IN  IF /\ START_ROW_COL_INDEX <= new_row /\ new_row <= END_ROW_COL_INDEX
           /\ START_ROW_COL_INDEX <= new_col /\ new_col <= END_ROW_COL_INDEX
        THEN Some(cls(new_row, new_col))
        ELSE None

-----------------------------------------------------------------------------
(* piece/color.py, piece/abstract.py, piece/pieces.py                      *)

\* ColorName
WHITE == "white"
BLACK == "black"
ColorName == {WHITE, BLACK}

\* PieceName
PAWN == "pawn"
ROOK == "rook"
KNIGHT == "knight"
BISHOP == "bishop"
QUEEN == "queen"
KING == "king"
PieceName == {PAWN, ROOK, KNIGHT, BISHOP, QUEEN, KING}

\* PieceColor.__init__: the colour, or PieceColorError
PieceColor(color) ==
    IF color \notin ColorName THEN Raise("PieceColorError") ELSE Return(color)

\* Piece.__init__, for the subclass `kind`
Piece(kind, color, position) ==
    [kind |-> kind, color |-> color, position |-> position,
     is_die |-> FALSE, has_moved |-> FALSE]

\* kill() that leaves the flag as it was
kill_keeps_flag(self) == self

\* Piece.kill
kill(self) == [self EXCEPT !.is_die = TRUE]

\* move() that leaves the flag as it was
move_keeps_flag(self) == self

\* Piece.move
move(self) == [self EXCEPT !.has_moved = TRUE]

\* an is_die setter that assigns the value
set_is_die_assigns(self, value) ==
    [self |-> [self EXCEPT !.is_die = value], exc |-> ""]

\* piece.is_die = value: the property's setter raises, the object is as before
set_is_die(self, value) == [self |-> self, exc |-> "PieceError"]

\* piece.has_moved = value: the property's setter raises, the object is as
\* before
set_has_moved(self, value) == [self |-> self, exc |-> "PieceError"]

\* MoveInfo(from_pos, to_pos, is_attack)
MoveInfo(from_pos, to_pos, is_attack) ==
    [from_pos |-> from_pos, to_pos |-> to_pos, is_attack |-> is_attack]

\* calling a direction generator of PiecePosition and draining it into a list
direction(name, pos) ==
    CASE name = "move_up" -> move_up(pos)
      [] name = "move_down" -> move_down(pos)
      [] name = "move_right" -> move_right(pos)
      [] name = "move_left" -> move_left(pos)
      [] name = "move_up_right" -> move_up_right(pos)
      [] name = "move_up_left" -> move_up_left(pos)
      [] name = "move_down_right" -> move_down_right(pos)
      [] name = "move_down_left" -> move_down_left(pos)

\* next(gen, None), called for the n-th time on a generator that yields gen
next(gen, n) == IF Len(gen) >= n THEN Some(gen[n]) ELSE None

\* Piece._get_moves_by_directions
get_moves_by_directions(self, directions) ==
    MoveInfo(self.position,
             [i \in 1..Len(directions) |-> direction(directions[i], self.position)],
             FALSE)

RECURSIVE offset_loop(_, _, _)
offset_loop(self, offsets, to_pos) ==
    IF offsets = <<>>
    THEN to_pos
    ELSE LET pos == offset(self.position, Head(offsets))
         IN  offset_loop(self, Tail(offsets),
                         IF pos # None THEN Append(to_pos, <<pos[1]>>) ELSE to_pos)

\* Piece._get_moves_by_offset
get_moves_by_offset(self, offsets) ==
    MoveInfo(self.position, offset_loop(self, offsets, <<>>), FALSE)

\* Pawn.get_moves without the second step of a pawn that has not moved
Pawn_get_moves_one_step(self) ==
    LET pos_gen == IF self.color = WHITE
                   THEN move_up(self.position)
                   ELSE move_down(self.position)
        pos1 == next(pos_gen, 1)
        ray1 == IF pos1 # None THEN <<pos1[1]>> ELSE <<>>
    IN  MoveInfo(self.position, <<ray1>>, FALSE)

Pawn_get_moves(self) ==
    LET pos_gen == IF self.color = WHITE
                   THEN move_up(self.position)
                   ELSE move_down(self.position)
        pos1 == next(pos_gen, 1)
        ray1 == IF pos1 # None THEN <<pos1[1]>> ELSE <<>>
        pos2 == next(pos_gen, 2)
        ray2 == IF ~self.has_moved
                THEN IF pos2 # None THEN Append(ray1, pos2[1]) ELSE ray1
                ELSE ray1
    IN  MoveInfo(self.position, <<ray2>>, FALSE)

RECURSIVE pawn_attack_loop(_, _, _)
pawn_attack_loop(self, directions, to_pos) ==
    IF directions = <<>>
    THEN to_pos
    ELSE LET pos == next(direction(Head(directions), self.position), 1)
         IN  pawn_attack_loop(self, Tail(directions),
                              IF pos # None THEN Append(to_pos, <<pos[1]>>) ELSE to_pos)

\* Pawn.get_attacks that gives a pawn that has moved no attack
Pawn_get_attacks_unmoved_only(self) ==
    LET directions == IF self.color = WHITE
                      THEN <<"move_up_right", "move_up_left">>
                      ELSE <<"move_down_right", "move_down_left">>
    IN  MoveInfo(self.position,
                 IF self.has_moved
                 THEN <<>>
                 ELSE pawn_attack_loop(self, directions, <<>>),
                 TRUE)

\* Pawn.get_attacks with the White directions for both colours
Pawn_get_attacks_upward(self) ==
    MoveInfo(self.position,
             pawn_attack_loop(self, <<"move_up_right", "move_up_left">>, <<>>),
             TRUE)

Pawn_get_attacks(self) ==
    LET directions == IF self.color = WHITE
                      THEN <<"move_up_right", "move_up_left">>
                      ELSE <<"move_down_right", "move_down_left">>
    IN  MoveInfo(self.position, pawn_attack_loop(self, directions, <<>>), TRUE)

Rook_get_moves(self) ==
    get_moves_by_directions(self,
        <<"move_up", "move_right", "move_down", "move_left">>)

\* the list `offset` of Knight.get_moves
Knight_offset ==
    << <<2, 1>>, <<1, 2>>, <<-1, 2>>, <<-2, 1>>,
       <<-2, -1>>, <<-1, -2>>, <<1, -2>>, <<2, -1>> >>

Knight_get_moves(self) == get_moves_by_offset(self, Knight_offset)

Bishop_get_moves(self) ==
    get_moves_by_directions(self,
        <<"move_up_right", "move_down_right", "move_down_left", "move_up_left">>)

\* Queen.get_moves with the straight directions first, then the diagonals
Queen_get_moves_straight_first(self) ==
    get_moves_by_directions(self,
        <<"move_up", "move_right", "move_down", "move_left",
          "move_up_right", "move_down_right", "move_down_left", "move_up_left">>)

Queen_get_moves(self) ==
    get_moves_by_directions(self,
        <<"move_up", "move_up_right", "move_right", "move_down_right",
          "move_down", "move_down_left", "move_left", "move_up_left">>)

\* the list `offset` of King.get_moves
King_offset ==
    << <<-1, 0>>, <<-1, 1>>, <<0, 1>>, <<1, 1>>,
       <<1, 0>>, <<1, -1>>, <<0, -1>>, <<-1, -1>> >>

King_get_moves(self) == get_moves_by_offset(self, King_offset)

\* piece.get_moves(), dispatched on the piece's class
get_moves(self) ==
    CASE self.kind = PAWN -> Pawn_get_moves(self)
      [] self.kind = ROOK -> Rook_get_moves(self)
      [] self.kind = KNIGHT -> Knight_get_moves(self)
      [] self.kind = BISHOP -> Bishop_get_moves(self)
      [] self.kind = QUEEN -> Queen_get_moves(self)
      [] self.kind = KING -> King_get_moves(self)

\* piece.get_attacks(), dispatched on the piece's class
get_attacks(self) ==
    CASE self.kind = PAWN -> Pawn_get_attacks(self)
      [] self.kind = ROOK -> Rook_get_moves(self)
      [] self.kind = KNIGHT -> Knight_get_moves(self)
      [] self.kind = BISHOP -> Bishop_get_moves(self)
      [] self.kind = QUEEN -> Queen_get_moves(self)
      [] self.kind = KING -> King_get_moves(self)

\* Piece.serialize; name is (colour, class name), str_position (letter, row)
serialize(self) ==
    [name |-> <<self.color, self.kind>>,
     color |-> self.color,
     row |-> self.position.row,
     column |-> self.position.column,
     str_position |-> <<letters[self.position.column], self.position.row>>]

-----------------------------------------------------------------------------
(* piece/creators.py                                                       *)

\* piece_creator: the new Piece, or the error raised
piece_creator(piece, color, row, column) ==
    IF piece \notin PieceName
    THEN Raise("PieceCreatorError")
    ELSE LET piece_color == PieceColor(color)
             piece_position == PiecePosition(row, PyInt(column))
         IN  IF piece_color.exc # "" THEN Raise(piece_color.exc)
             ELSE IF piece_position.exc # "" THEN Raise(piece_position.exc)
             ELSE Return(Piece(piece, piece_color.val, piece_position.val))

-----------------------------------------------------------------------------
(* board.py                                                                *)

\* self._grid.get(key): Some(piece) or None
grid_get(g, key) ==
    IF \E i \in 1..Len(g) : g[i].key = key
    THEN Some(g[CHOOSE i \in 1..Len(g) : g[i].key = key].piece)
    ELSE None

\* a delete that removes the oldest item, whatever the key
grid_del_oldest(g, key) == Tail(g)

\* a delete that removes nothing
grid_del_nothing(g, key) == g

\* del self._grid[key]
grid_del(g, key) == SelectSeq(g, LAMBDA item : item.key # key)

\* a store that never replaces the item already under the key
grid_set_keeps_old(g, key, piece) == Append(g, [key |-> key, piece |-> piece])

\* self._grid[key] = piece: a present key keeps its place, a new one goes last
grid_set(g, key, piece) ==
    IF \E i \in 1..Len(g) : g[i].key = key
    THEN [i \in 1..Len(g) |-> IF g[i].key = key
                              THEN [key |-> key, piece |-> piece]
                              ELSE g[i]]
    ELSE Append(g, [key |-> key, piece |-> piece])

\* a clear that removes nothing
grid_clear_nothing(g) == g

\* self._grid.clear()
grid_clear(g) == <<>>

\* d[key] = piece for every (key, piece) of `items`, in order: a key keeps the
\* place of its first store and the value of its last
grid_update(d, items) ==
    LET all == d \o items
        numbered == [i \in 1..Len(all) |-> [key |-> all[i].key, at |-> i]]
        firsts == SelectSeq(numbered,
                      LAMBDA it : \A j \in 1..(it.at - 1) : all[j].key # it.key)
        last(key) == CHOOSE i \in 1..Len(all) :
                         /\ all[i].key = key
                         /\ \A j \in (i + 1)..Len(all) : all[j].key # key
    IN  [i \in 1..Len(firsts) |->
            [key |-> firsts[i].key, piece |-> all[last(firsts[i].key)].piece]]

\* the piece_creator calls of the first loop, from column `col` on:
\* for col in range(START_ROW_COL_INDEX, END_ROW_COL_INDEX + 1)
RECURSIVE pawn_loop(_)
pawn_loop(col) ==
    IF col >= END_ROW_COL_INDEX + 1
    THEN <<>>
    ELSE << [piece |-> PAWN, color |-> WHITE, row |-> 2, column |-> col],
            [piece |-> PAWN, color |-> BLACK, row |-> 7, column |-> col] >>
         \o pawn_loop(col + 1)

back_rank == <<ROOK, KNIGHT, BISHOP, QUEEN, KING, BISHOP, KNIGHT, ROOK>>

\* the piece_creator calls of the second loop, from index `idx` on:
\* for idx, piece_name in enumerate(back_rank, start=1)
RECURSIVE back_rank_loop(_)
back_rank_loop(idx) ==
    IF idx > Len(back_rank)
    THEN <<>>
    ELSE << [piece |-> back_rank[idx], color |-> WHITE, row |-> 1, column |-> idx],
            [piece |-> back_rank[idx], color |-> BLACK, row |-> 8, column |-> idx] >>
         \o back_rank_loop(idx + 1)

\* Board.setup_initial_positions, on the grid g and the heap ps: each call of
\* the loops creates a Piece (a new object on the heap) and stores it under
\* the position number of its row and column
setup_initial_positions(g, ps) ==
    LET calls == pawn_loop(START_ROW_COL_INDEX) \o back_rank_loop(1)
        created == [i \in 1..Len(calls) |->
                       piece_creator(calls[i].piece, calls[i].color,
                                     calls[i].row, calls[i].column).val]
        items == [i \in 1..Len(calls) |->
                     [key |-> convert_row_column_to_position_number(
                                  calls[i].row, calls[i].column).val,
                      piece |-> Len(ps) + i]]
    IN  [grid |-> grid_update(grid_clear(g), items), pieces |-> ps \o created]

\* Board.get_piece_at
get_piece_at(g, position) == grid_get(g, get_position_number(position))

\* move_piece that captures the target before it looks at the source
move_piece_kills_first(g, ps, from_pos, to_pos) ==
    LET key_from == get_position_number(from_pos)
        key_to == get_position_number(to_pos)
        piece == grid_get(g, key_from)
        target == grid_get(g, key_to)
        ps1 == IF target # None
               THEN [ps EXCEPT ![target[1]] = kill(@)]
               ELSE ps
    IN  IF piece = None
        THEN [grid |-> g, pieces |-> ps1, exc |-> "BoardError"]
        ELSE LET g1 == grid_del(g, key_from)
                 ps2 == [ps1 EXCEPT ![piece[1]].position = to_pos]
                 ps3 == [ps2 EXCEPT ![piece[1]] = move(@)]
                 g2 == grid_set(g1, key_to, piece[1])
             IN  [grid |-> g2, pieces |-> ps3, exc |-> ""]

\* move_piece that stores the piece under the new key and leaves its position
\* as it was
move_piece_keeps_position(g, ps, from_pos, to_pos) ==
    LET key_from == get_position_number(from_pos)
        key_to == get_position_number(to_pos)
        piece == grid_get(g, key_from)
    IN  IF piece = None
        THEN [grid |-> g, pieces |-> ps, exc |-> "BoardError"]
        ELSE LET target == grid_get(g, key_to)
                 ps1 == IF target # None
                        THEN [ps EXCEPT ![target[1]] = kill(@)]
                        ELSE ps
                 g1 == grid_del(g, key_from)
                 ps3 == [ps1 EXCEPT ![piece[1]] = move(@)]
                 g2 == grid_set(g1, key_to, piece[1])
             IN  [grid |-> g2, pieces |-> ps3, exc |-> ""]

\* Board.move_piece, on the grid g and the heap ps
move_piece(g, ps, from_pos, to_pos) ==
    LET key_from == get_position_number(from_pos)
        key_to == get_position_number(to_pos)
        piece == grid_get(g, key_from)
    IN  IF piece = None
        THEN [grid |-> g, pieces |-> ps, exc |-> "BoardError"]
        ELSE LET target == grid_get(g, key_to)
                 ps1 == IF target # None
                        THEN [ps EXCEPT ![target[1]] = kill(@)]
                        ELSE ps
                 g1 == grid_del(g, key_from)
                 ps2 == [ps1 EXCEPT ![piece[1]].position = to_pos]
                 ps3 == [ps2 EXCEPT ![piece[1]] = move(@)]
                 g2 == grid_set(g1, key_to, piece[1])
             IN  [grid |-> g2, pieces |-> ps3, exc |-> ""]

\* Board.all_pieces
all_pieces(g) == [i \in 1..Len(g) |-> g[i].piece]

\* Board.serialize
Board_serialize(g, ps) ==
    [i \in 1..Len(all_pieces(g)) |-> serialize(ps[all_pieces(g)[i]])]

-----------------------------------------------------------------------------
(* The board as a state machine: Board() and then any calls of            *)
(* setup_initial_positions and move_piece, one at a time.                 *)

NoArg == [row |-> 0, column |-> 0, n |-> 0]
NoResult == [call |-> "", ret |-> None]

\* the i-th square move_piece is called on: the a-file first, then the b-file,
\* and so on; on each file the pawns' rows first (2, 7), then a square in
\* front of a pawn (3), a last row (8), then rows 6 and 1, then the middle
\* (4, 5)
InputSquare(i) ==
    LET rows == <<2, 7, 3, 8, 6, 1, 4, 5>>
    IN  cls(rows[((i - 1) % Len(rows)) + 1], ((i - 1) \div Len(rows)) + 1)

InputPositions == {InputSquare(i) : i \in 1..MaxSquares}

\* Board.__init__
Init ==
    /\ LET st == setup_initial_positions(<<>>, <<>>)
       IN  grid = st.grid /\ pieces = st.pieces
    /\ err = ""
    /\ nmoves = 0
    /\ nsetups = 0
    /\ arg = NoArg
    /\ result = NoResult

SetupInitialPositions ==
    /\ nsetups < MaxSetups
    /\ LET st == setup_initial_positions(grid, pieces)
       IN  grid' = st.grid /\ pieces' = st.pieces
    /\ err' = ""
    /\ nsetups' = nsetups + 1
    /\ UNCHANGED <<nmoves, arg, result>>

MovePiece(from_pos, to_pos) ==
    /\ nmoves < MaxMoves
    /\ LET st == move_piece(grid, pieces, from_pos, to_pos)
       IN  grid' = st.grid /\ pieces' = st.pieces /\ err' = st.exc
    /\ nmoves' = nmoves + 1
    /\ UNCHANGED <<nsetups, arg, result>>

Next ==
    \/ SetupInitialPositions
    \/ \E from_pos \in InputPositions, to_pos \in InputPositions :
           MovePiece(from_pos, to_pos)

Spec == Init /\ [][Next]_vars

-----------------------------------------------------------------------------
(* One piece as a state machine: piece_creator(kind, colour, row, column)  *)
(* for any kind, colour and square, and then any calls of its methods.     *)
(* The piece is pieces[1]; there is no board.                              *)

InitPiece ==
    /\ \E piece \in PieceName, color \in ColorName,
          row \in START_ROW_COL_INDEX..END_ROW_COL_INDEX,
          column \in START_ROW_COL_INDEX..END_ROW_COL_INDEX :
           pieces = <<piece_creator(piece, color, row, column).val>>
    /\ grid = <<>>
    /\ err = ""
    /\ nmoves = 0
    /\ nsetups = 0
    /\ arg = NoArg
    /\ result = NoResult

\* piece.kill()
Kill ==
    /\ pieces' = [pieces EXCEPT ![1] = kill(@)]
    /\ UNCHANGED <<grid, err, nmoves, nsetups, arg, result>>

\* piece.move()
Move ==
    /\ pieces' = [pieces EXCEPT ![1] = move(@)]
    /\ UNCHANGED <<grid, err, nmoves, nsetups, arg, result>>

\* piece.get_moves()
GetMoves ==
    /\ result' = [call |-> "get_moves", ret |-> get_moves(pieces[1])]
    /\ UNCHANGED <<grid, pieces, err, nmoves, nsetups, arg>>

\* piece.get_attacks()
GetAttacks ==
    /\ result' = [call |-> "get_attacks", ret |-> get_attacks(pieces[1])]
    /\ UNCHANGED <<grid, pieces, err, nmoves, nsetups, arg>>

NextPiece == Kill \/ Move \/ GetMoves \/ GetAttacks

SpecPiece == InitPiece /\ [][NextPiece]_vars

-----------------------------------------------------------------------------
(* The board together with the pieces on it: Board() and then any calls of *)
(* the board's methods and of the methods and flag assignments of a piece  *)
(* that get_piece_at returns.                                              *)

\* board.get_piece_at(pos).kill()
KillAt(pos) ==
    /\ get_piece_at(grid, pos) # None
    /\ pieces' = [pieces EXCEPT ![get_piece_at(grid, pos)[1]] = kill(@)]
    /\ err' = ""
    /\ UNCHANGED <<grid, nmoves, nsetups, arg, result>>

\* board.get_piece_at(pos).move()
MoveAt(pos) ==
    /\ get_piece_at(grid, pos) # None
    /\ pieces' = [pieces EXCEPT ![get_piece_at(grid, pos)[1]] = move(@)]
    /\ err' = ""
    /\ UNCHANGED <<grid, nmoves, nsetups, arg, result>>

\* board.get_piece_at(pos).get_moves()
GetMovesAt(pos) ==
    /\ get_piece_at(grid, pos) # None
    /\ result' = [call |-> "get_moves",
                  ret |-> get_moves(pieces[get_piece_at(grid, pos)[1]])]
    /\ err' = ""
    /\ UNCHANGED <<grid, pieces, nmoves, nsetups, arg>>

\* board.get_piece_at(pos).get_attacks()
GetAttacksAt(pos) ==
    /\ get_piece_at(grid, pos) # None
    /\ result' = [call |-> "get_attacks",
                  ret |-> get_attacks(pieces[get_piece_at(grid, pos)[1]])]
    /\ err' = ""
    /\ UNCHANGED <<grid, pieces, nmoves, nsetups, arg>>

\* board.get_piece_at(pos).is_die = value
SetIsDieAt(pos, value) ==
    /\ get_piece_at(grid, pos) # None
    /\ LET P == get_piece_at(grid, pos)[1]
           r == set_is_die(pieces[P], value)
       IN  pieces' = [pieces EXCEPT ![P] = r.self] /\ err' = r.exc
    /\ UNCHANGED <<grid, nmoves, nsetups, arg, result>>

\* board.get_piece_at(pos).has_moved = value
SetHasMovedAt(pos, value) ==
    /\ get_piece_at(grid, pos) # None
    /\ LET P == get_piece_at(grid, pos)[1]
           r == set_has_moved(pieces[P], value)
       IN  pieces' = [pieces EXCEPT ![P] = r.self] /\ err' = r.exc
    /\ UNCHANGED <<grid, nmoves, nsetups, arg, result>>

PieceSquares == {InputSquare(i) : i \in 1..MaxPieceSquares}

NextBoardPieces ==
    \/ SetupInitialPositions
    \/ \E from_pos \in PieceSquares, to_pos \in PieceSquares :
           MovePiece(from_pos, to_pos)
    \/ \E pos \in PieceSquares :
           \/ KillAt(pos)
           \/ MoveAt(pos)
           \/ GetMovesAt(pos)
           \/ GetAttacksAt(pos)
           \/ \E value \in BOOLEAN :
                  SetIsDieAt(pos, value) \/ SetHasMovedAt(pos, value)

SpecBoardPieces == Init /\ [][NextBoardPieces]_vars

-----------------------------------------------------------------------------
(* The coordinate conversions, applied to any row, column and position     *)
(* number in or just outside their ranges.                                 *)

InitPos ==
    /\ arg \in [row : (START_ROW_COL_INDEX - 1)..(END_ROW_COL_INDEX + 1),
                column : (START_ROW_COL_INDEX - 1)..(END_ROW_COL_INDEX + 1),
                n : (START_BOARD_INDEX - 1)..(END_BOARD_INDEX + 1)]
    /\ grid = <<>>
    /\ pieces = <<>>
    /\ err = ""
    /\ nmoves = 0
    /\ nsetups = 0
    /\ result = NoResult

\* PiecePosition.convert_row_column_to_position_number(arg.row, arg.column)
ToPositionNumber ==
    /\ LET r == convert_row_column_to_position_number(arg.row, arg.column)
       IN  /\ result' = [call |-> "convert_row_column_to_position_number",
                         ret |-> r.val]
           /\ err' = r.exc
    /\ UNCHANGED <<grid, pieces, nmoves, nsetups, arg>>

\* PiecePosition.convert_position_number_to_row_column(arg.n)
FromPositionNumber ==
    /\ LET r == convert_position_number_to_row_column(arg.n)
       IN  /\ result' = [call |-> "convert_position_number_to_row_column",
                         ret |-> r.val]
           /\ err' = r.exc
    /\ UNCHANGED <<grid, pieces, nmoves, nsetups, arg>>

NextPos == ToPositionNumber \/ FromPositionNumber

SpecPos == InitPos /\ [][NextPos]_vars

-----------------------------------------------------------------------------
(* Coordinates from their constructors: ChessFile(column) and              *)
(* PiecePosition(row, column) for any row in or just outside its range and *)
(* any column given as an int or as a str, and the two conversions.        *)

\* the characters of the strs given as a file: letters of both cases that
\* name a file, and one that names none
Alphabet == {"a", "b", "c", "e", "h", "B", "H", "i"}

\* the ints given as a file: in or just outside 1..8
IntInputs == (START_ROW_COL_INDEX - 1)..(END_ROW_COL_INDEX + 1)

\* the strs given as a file: at most MaxStrLen characters
StrInputs == UNION {[1..k -> Alphabet] : k \in 0..MaxStrLen}

InitCoordinate ==
    /\ \E row \in (START_ROW_COL_INDEX - 1)..(END_ROW_COL_INDEX + 1),
          n \in {START_BOARD_INDEX - 1, START_BOARD_INDEX,
                 END_BOARD_INDEX, END_BOARD_INDEX + 1} :
           \/ \E column \in IntInputs :
                  arg = [row |-> row, column |-> PyInt(column), n |-> n]
           \/ \E column \in StrInputs :
                  arg = [row |-> row, column |-> PyStr(column), n |-> n]
    /\ grid = <<>>
    /\ pieces = <<>>
    /\ err = ""
    /\ nmoves = 0
    /\ nsetups = 0
    /\ result = NoResult

\* ChessFile(arg.column)
NewChessFile ==
    /\ LET r == ChessFile(arg.column)
       IN  result' = [call |-> "ChessFile", ret |-> r.val] /\ err' = r.exc
    /\ UNCHANGED <<grid, pieces, nmoves, nsetups, arg>>

\* PiecePosition(arg.row, arg.column)
NewPiecePosition ==
    /\ LET r == PiecePosition(arg.row, arg.column)
       IN  result' = [call |-> "PiecePosition", ret |-> r.val] /\ err' = r.exc
    /\ UNCHANGED <<grid, pieces, nmoves, nsetups, arg>>

\* PiecePosition.convert_row_column_to_position_number(arg.row, arg.column),
\* whose column is an int
RowColumnToPositionNumber ==
    /\ arg.column.type = "int"
    /\ LET r == convert_row_column_to_position_number(arg.row, arg.column.v)
       IN  /\ result' = [call |-> "convert_row_column_to_position_number",
                         ret |-> r.val]
           /\ err' = r.exc
    /\ UNCHANGED <<grid, pieces, nmoves, nsetups, arg>>

NextCoordinate ==
    \/ NewChessFile
    \/ NewPiecePosition
    \/ RowColumnToPositionNumber
    \/ FromPositionNumber

SpecCoordinate == InitCoordinate /\ [][NextCoordinate]_vars

-----------------------------------------------------------------------------
(* Board.move_piece, one statement at a time (board.py:97-108), called by  *)
(* several threads on one board.  arg.calls[t] is thread t's frame: the    *)
(* statement it is about to run (pc), its locals, and the outcome of its   *)
(* last call (exc).  arg.overlapped records that some call began while     *)
(* another was in progress.                                                *)

Threads == 1..MaxThreads

CallSquares == {InputSquare(i) : i \in 1..MaxCallSquares}

NoPosition == [row |-> 0, column |-> 0]

\* the frame of a thread that is not inside move_piece
Returned(exc) ==
    [pc |-> "idle", key_from |-> 0, key_to |-> 0, to_pos |-> NoPosition,
     piece |-> None, target |-> None, exc |-> exc]

InProgress(t) == arg.calls[t].pc # "idle"

InitThreads ==
    /\ LET st == setup_initial_positions(<<>>, <<>>)
       IN  grid = st.grid /\ pieces = st.pieces
    /\ err = ""
    /\ nmoves = 0
    /\ nsetups = 0
    /\ arg = [calls |-> [t \in Threads |-> Returned("")], overlapped |-> FALSE]
    /\ result = NoResult

\* del d[key]: KeyError when the key is missing
grid_delitem(g, key) ==
    IF grid_get(g, key) = None
    THEN [grid |-> g, exc |-> "KeyError"]
    ELSE [grid |-> grid_del(g, key), exc |-> ""]

\* thread t enters move_piece(from_pos, to_pos) and computes the two keys
BeginMove(t, from_pos, to_pos) ==
    /\ ~InProgress(t)
    /\ nmoves < MaxCalls
    /\ arg' = [calls |-> [arg.calls EXCEPT ![t] =
                    [pc |-> "read_source",
                     key_from |-> get_position_number(from_pos),
                     key_to |-> get_position_number(to_pos),
                     to_pos |-> to_pos,
                     piece |-> None, target |-> None, exc |-> ""]],
               overlapped |-> \/ arg.overlapped
                              \/ \E u \in Threads \ {t} : InProgress(u)]
    /\ nmoves' = nmoves + 1
    /\ UNCHANGED <<grid, pieces, err, nsetups, result>>

\* piece = self._grid.get(key_from); if piece is None: raise BoardError
ReadSource(t) ==
    /\ arg.calls[t].pc = "read_source"
    /\ LET piece == grid_get(grid, arg.calls[t].key_from)
       IN  IF piece = None
           THEN /\ arg' = [arg EXCEPT !.calls[t] = Returned("BoardError")]
                /\ err' = "BoardError"
           ELSE /\ arg' = [arg EXCEPT !.calls[t].piece = piece,
                                      !.calls[t].pc = "read_target"]
                /\ err' = err
    /\ UNCHANGED <<grid, pieces, nmoves, nsetups, result>>

\* target = self._grid.get(key_to); if target:
ReadTarget(t) ==
    /\ arg.calls[t].pc = "read_target"
    /\ LET target == grid_get(grid, arg.calls[t].key_to)
       IN  arg' = [arg EXCEPT !.calls[t].target = target,
                              !.calls[t].pc = IF target # None
                                              THEN "kill_target"
                                              ELSE "delete_source"]
    /\ UNCHANGED <<grid, pieces, err, nmoves, nsetups, result>>

\* target.kill()
KillTarget(t) ==
    /\ arg.calls[t].pc = "kill_target"
    /\ pieces' = [pieces EXCEPT ![arg.calls[t].target[1]] = kill(@)]
    /\ arg' = [arg EXCEPT !.calls[t].pc = "delete_source"]
    /\ UNCHANGED <<grid, err, nmoves, nsetups, result>>

\* del self._grid[key_from]
DeleteSource(t) ==
    /\ arg.calls[t].pc = "delete_source"
    /\ LET st == grid_delitem(grid, arg.calls[t].key_from)
       IN  /\ grid' = st.grid
           /\ IF st.exc # ""
              THEN /\ arg' = [arg EXCEPT !.calls[t] = Returned(st.exc)]
                   /\ err' = st.exc
              ELSE /\ arg' = [arg EXCEPT !.calls[t].pc = "set_position"]
                   /\ err' = err
    /\ UNCHANGED <<pieces, nmoves, nsetups, result>>

\* piece.position = to_pos
SetPosition(t) ==
    /\ arg.calls[t].pc = "set_position"
    /\ pieces' = [pieces EXCEPT ![arg.calls[t].piece[1]].position =
                                    arg.calls[t].to_pos]
    /\ arg' = [arg EXCEPT !.calls[t].pc = "mark_moved"]
    /\ UNCHANGED <<grid, err, nmoves, nsetups, result>>

\* piece.move()
MarkMoved(t) ==
    /\ arg.calls[t].pc = "mark_moved"
    /\ pieces' = [pieces EXCEPT ![arg.calls[t].piece[1]] = move(@)]
    /\ arg' = [arg EXCEPT !.calls[t].pc = "install"]
    /\ UNCHANGED <<grid, err, nmoves, nsetups, result>>

\* self._grid[key_to] = piece, and the call returns
Install(t) ==
    /\ arg.calls[t].pc = "install"
    /\ grid' = grid_set(grid, arg.calls[t].key_to, arg.calls[t].piece[1])
    /\ arg' = [arg EXCEPT !.calls[t] = Returned("")]
    /\ err' = ""
    /\ UNCHANGED <<pieces, nmoves, nsetups, result>>

NextThreads ==
    \/ \E t \in Threads, from_pos \in CallSquares, to_pos \in CallSquares :
           BeginMove(t, from_pos, to_pos)
    \/ \E t \in Threads : ReadSource(t)
    \/ \E t \in Threads : ReadTarget(t)
    \/ \E t \in Threads : KillTarget(t)
    \/ \E t \in Threads : DeleteSource(t)
    \/ \E t \in Threads : SetPosition(t)
    \/ \E t \in Threads : MarkMoved(t)
    \/ \E t \in Threads : Install(t)

SpecThreads == InitThreads /\ [][NextThreads]_vars

-----------------------------------------------------------------------------
(* One thread inside move_piece while another thread queries the board     *)
(* between its statements.  result is what the last query returned.        *)

Writer == 1

\* board.get_piece_at(pos)
GetPieceAt(pos) ==
    /\ result' = [call |-> "get_piece_at", ret |-> get_piece_at(grid, pos)]
    /\ UNCHANGED <<grid, pieces, err, nmoves, nsetups, arg>>

\* board.all_pieces
AllPieces ==
    /\ result' = [call |-> "all_pieces", ret |-> all_pieces(grid)]
    /\ UNCHANGED <<grid, pieces, err, nmoves, nsetups, arg>>

NextReader ==
    \/ \E from_pos \in CallSquares, to_pos \in CallSquares :
           nmoves < MaxMoves /\ BeginMove(Writer, from_pos, to_pos)
    \/ ReadSource(Writer)
    \/ ReadTarget(Writer)
    \/ KillTarget(Writer)
    \/ DeleteSource(Writer)
    \/ SetPosition(Writer)
    \/ MarkMoved(Writer)
    \/ Install(Writer)
    \/ \E pos \in CallSquares : GetPieceAt(pos)
    \/ AllPieces

SpecReader == InitThreads /\ [][NextReader]_vars

-----------------------------------------------------------------------------
(* Properties of the board (checked under Spec).                           *)

\* the piece objects that all_pieces() returns
tracked(g) == {all_pieces(g)[i] : i \in 1..Len(all_pieces(g))}

\* the squares of the board
AllPositions ==
    {cls(r, c) : r \in START_ROW_COL_INDEX..END_ROW_COL_INDEX,
                 c \in START_ROW_COL_INDEX..END_ROW_COL_INDEX}

\* what the board shows on a square: the fields of the piece on it, or None
SquareView(g, ps, pos) ==
    IF get_piece_at(g, pos) = None THEN None ELSE Some(ps[get_piece_at(g, pos)[1]])

\* what the board shows: every square, and the serialization
View(g, ps) ==
    [squares |-> [pos \in AllPositions |-> SquareView(g, ps, pos)],
     serialized |-> Board_serialize(g, ps)]

\* C1 as stated: after any successful movePiece(from, to) with a piece P on
\* `from`, pieceAt(from) is empty, pieceAt(to) returns P, P.position equals
\* `to` and P.has_moved is true.
C1_AsStated ==
    [][\A from_pos \in InputPositions, to_pos \in InputPositions :
          (/\ MovePiece(from_pos, to_pos)
           /\ get_piece_at(grid, from_pos) # None
           /\ err' = "")
          => LET P == get_piece_at(grid, from_pos)[1]
             IN  /\ get_piece_at(grid', from_pos) = None
                 /\ get_piece_at(grid', to_pos) = Some(P)
                 /\ pos_eq(pieces'[P].position, to_pos)
                 /\ pieces'[P].has_moved]_vars

\* C1, amended: after any successful movePiece(from, to) with a piece P on
\* `from`, pieceAt(to) returns P, P.position equals `to`, P.has_moved is true,
\* and pieceAt(from) is empty whenever `from` and `to` are different squares
\* (when they are the same square it holds P).
C1_MoveRelocates ==
    [][\A from_pos \in InputPositions, to_pos \in InputPositions :
          (/\ MovePiece(from_pos, to_pos)
           /\ get_piece_at(grid, from_pos) # None
           /\ err' = "")
          => LET P == get_piece_at(grid, from_pos)[1]
             IN  /\ ~pos_eq(from_pos, to_pos) => get_piece_at(grid', from_pos) = None
                 /\ get_piece_at(grid', to_pos) = Some(P)
                 /\ pos_eq(pieces'[P].position, to_pos)
                 /\ pieces'[P].has_moved]_vars

\* C1 witness: a piece was moved to a square no piece starts on, and the board
\* returns it there.
C1_Witness ==
    /\ err = ""
    /\ nmoves > 0
    /\ \E P \in tracked(grid) :
          /\ pieces[P].has_moved
          /\ pieces[P].position.row \in {3, 6}
          /\ get_piece_at(grid, pieces[P].position) = Some(P)

\* C2 as stated: whenever movePiece(from, to) is called with a piece on `from`
\* and a piece Q on `to`, afterwards Q.captured is true and pieceAt(to) returns
\* the mover and not Q.
C2_AsStated ==
    [][\A from_pos \in InputPositions, to_pos \in InputPositions :
          (/\ MovePiece(from_pos, to_pos)
           /\ get_piece_at(grid, from_pos) # None
           /\ get_piece_at(grid, to_pos) # None)
          => LET P == get_piece_at(grid, from_pos)[1]
                 Q == get_piece_at(grid, to_pos)[1]
             IN  /\ pieces'[Q].is_die
                 /\ get_piece_at(grid', to_pos) = Some(P)
                 /\ get_piece_at(grid', to_pos) # Some(Q)]_vars

\* C2, amended: whenever movePiece(from, to) is called with a piece on `from`
\* and a piece Q on `to`, afterwards Q.captured is true and pieceAt(to) returns
\* the mover; it does not return Q whenever `from` and `to` are different
\* squares (when they are the same square Q is the mover itself).
C2_CaptureDisplaces ==
    [][\A from_pos \in InputPositions, to_pos \in InputPositions :
          (/\ MovePiece(from_pos, to_pos)
           /\ get_piece_at(grid, from_pos) # None
           /\ get_piece_at(grid, to_pos) # None)
          => LET P == get_piece_at(grid, from_pos)[1]
                 Q == get_piece_at(grid, to_pos)[1]
             IN  /\ pieces'[Q].is_die
                 /\ get_piece_at(grid', to_pos) = Some(P)
                 /\ ~pos_eq(from_pos, to_pos) => get_piece_at(grid', to_pos) # Some(Q)
                 /\ pos_eq(from_pos, to_pos) => Q = P]_vars

\* C2 witness: a piece Q is captured and the square it stood on holds another
\* piece, the one that moved there.
C2_Witness ==
    \E Q \in 1..Len(pieces) :
        /\ pieces[Q].is_die
        /\ \E P \in tracked(grid) :
              /\ P # Q
              /\ pieces[P].has_moved
              /\ get_piece_at(grid, pieces[Q].position) = Some(P)

\* C3: in every reachable board state, movePiece(from, to) with no piece on
\* `from` fails with BoardError for every `to` and leaves the board unchanged:
\* the mapping and every piece's position, captured flag and has_moved flag
\* are as before the call.
C3_EmptySourceFails ==
    [][\A from_pos \in InputPositions, to_pos \in InputPositions :
          (/\ MovePiece(from_pos, to_pos)
           /\ get_piece_at(grid, from_pos) = None)
          => /\ err' = "BoardError"
             /\ grid' = grid
             /\ pieces' = pieces]_vars

\* C3 witness: a move from an empty square has failed on a board on which an
\* earlier move had emptied a square and captured a piece.
C3_Witness ==
    /\ err = "BoardError"
    /\ \E Q \in 1..Len(pieces) : pieces[Q].is_die
    /\ \E pos \in InputPositions :
          /\ pos.row \in {2, 7}
          /\ get_piece_at(grid, pos) = None

\* C4 as stated: after a movePiece that captures a piece Q (destination
\* occupied by Q), allPieces() and the board serialization still contain Q,
\* now with captured = true.
C4_AsStated ==
    [][\A from_pos \in InputPositions, to_pos \in InputPositions :
          (/\ MovePiece(from_pos, to_pos)
           /\ get_piece_at(grid, from_pos) # None
           /\ get_piece_at(grid, to_pos) # None)
          => LET Q == get_piece_at(grid, to_pos)[1]
             IN  /\ pieces'[Q].is_die
                 /\ \E i \in 1..Len(all_pieces(grid')) :
                       /\ all_pieces(grid')[i] = Q
                       /\ Board_serialize(grid', pieces')[i] = serialize(pieces'[Q])]_vars

\* C4, amended: after a movePiece(from, to) that captures a piece Q other than
\* the mover (`to` occupied by Q, `from` a different square), Q has
\* captured = true and allPieces() and the board serialization no longer
\* contain Q: they hold one piece less than before, one entry per piece still
\* in the mapping.  (A move with from = to marks the mover itself captured
\* and keeps it in the collection.)
C4_CaptureRemoves ==
    [][\A from_pos \in InputPositions, to_pos \in InputPositions :
          (/\ MovePiece(from_pos, to_pos)
           /\ get_piece_at(grid, from_pos) # None
           /\ get_piece_at(grid, to_pos) # None)
          => LET Q == get_piece_at(grid, to_pos)[1]
             IN  /\ pieces'[Q].is_die
                 /\ Len(Board_serialize(grid', pieces')) = Len(all_pieces(grid'))
                 /\ \A i \in 1..Len(all_pieces(grid')) :
                       Board_serialize(grid', pieces')[i]
                           = serialize(pieces'[all_pieces(grid')[i]])
                 /\ ~pos_eq(from_pos, to_pos)
                       => /\ Q \notin tracked(grid')
                          /\ Len(all_pieces(grid')) = Len(all_pieces(grid)) - 1
                 /\ pos_eq(from_pos, to_pos)
                       => /\ Q \in tracked(grid')
                          /\ Len(all_pieces(grid')) = Len(all_pieces(grid))]_vars

\* C4 witness: a captured piece that all_pieces() no longer returns, on a
\* board that tracks fewer pieces than were set up.
C4_Witness ==
    /\ Len(all_pieces(grid)) < 32
    /\ \E Q \in 1..Len(pieces) :
          /\ pieces[Q].is_die
          /\ Q \notin tracked(grid)
          /\ \E P \in tracked(grid) : pos_eq(pieces[P].position, pieces[Q].position)

\* the standard layout, as the claim words it
StandardKind(column) ==
    CASE column \in {1, 8} -> ROOK
      [] column \in {2, 7} -> KNIGHT
      [] column \in {3, 6} -> BISHOP
      [] column = 4 -> QUEEN
      [] column = 5 -> KING

StandardSquare(pos) ==
    LET fresh(kind, color) ==
            Some([kind |-> kind, color |-> color, position |-> pos,
                  is_die |-> FALSE, has_moved |-> FALSE])
    IN  CASE pos.row = 2 -> fresh(PAWN, WHITE)
          [] pos.row = 7 -> fresh(PAWN, BLACK)
          [] pos.row = 1 -> fresh(StandardKind(pos.column), WHITE)
          [] pos.row = 8 -> fresh(StandardKind(pos.column), BLACK)
          [] OTHER -> None

\* C5: in any state reachable by movePiece and setupInitialPositions calls,
\* setupInitialPositions yields exactly the standard layout: 32 pieces, White
\* pawns on row 2, Black pawns on row 7, Rook, Knight, Bishop, Queen, King,
\* Bishop, Knight, Rook on files a..h of rows 1 (White) and 8 (Black), every
\* other square empty, every piece with captured = false and
\* has_moved = false; calling it again gives the same board.
C5_SetupIsStandard ==
    [][SetupInitialPositions
          => /\ Len(all_pieces(grid')) = 32
             /\ Cardinality(tracked(grid')) = 32
             /\ \A pos \in AllPositions :
                   SquareView(grid', pieces', pos) = StandardSquare(pos)
             /\ \A again \in {setup_initial_positions(grid', pieces')} :
                   View(again.grid, again.pieces) = View(grid', pieces')]_vars

\* C5 witness: the board right after a setup that followed a capture: a piece
\* of the earlier layout is captured, and every square shows a piece created
\* by the new setup or nothing.
C5_Witness ==
    /\ nsetups > 0
    /\ \E Q \in 1..32 : pieces[Q].is_die
    /\ \A P \in tracked(grid) : P > Len(pieces) - 32 /\ ~pieces[P].has_moved

-----------------------------------------------------------------------------
(* Properties of the coordinate conversions (checked under SpecPos).       *)

\* C6: (row, column) -> (row-1)*8 + column is a bijection from the 64 pairs
\* with row, column in 1..8 onto 1..64, and
\* n -> ((n-1) div 8 + 1, (n-1) mod 8 + 1) is its inverse in both directions:
\* converting a valid pair to its number and back gives the pair, converting a
\* number of 1..64 to its pair and back gives the number, and no other pair
\* has the same number.
C6_PositionNumberBijection ==
    /\ (/\ result.call = "convert_row_column_to_position_number"
        /\ arg.row \in 1..8
        /\ arg.column \in 1..8)
       => /\ err = ""
          /\ result.ret = (arg.row - 1) * 8 + arg.column
          /\ result.ret \in 1..64
          /\ convert_position_number_to_row_column(result.ret).exc = ""
          /\ convert_position_number_to_row_column(result.ret).val
                 = <<arg.row, arg.column>>
          /\ \A r \in 1..8, c \in 1..8 :
                convert_row_column_to_position_number(r, c).val = result.ret
                    => r = arg.row /\ c = arg.column
    /\ (/\ result.call = "convert_position_number_to_row_column"
        /\ arg.n \in 1..64)
       => /\ err = ""
          /\ result.ret = <<((arg.n - 1) \div 8) + 1, ((arg.n - 1) % 8) + 1>>
          /\ result.ret[1] \in 1..8
          /\ result.ret[2] \in 1..8
          /\ convert_row_column_to_position_number(result.ret[1], result.ret[2]).exc = ""
          /\ convert_row_column_to_position_number(result.ret[1], result.ret[2]).val
                 = arg.n

\* C6 witness: the last square of a row converted to its number, 8 * row, the
\* number on which an unshifted inverse goes wrong.
C6_Witness ==
    /\ result.call = "convert_row_column_to_position_number"
    /\ arg.row = 3
    /\ arg.column = 8
    /\ err = ""
    /\ result.ret = 24

-----------------------------------------------------------------------------
(* Properties of move generation (checked under SpecPiece).                *)

Min(a, b) == IF a <= b THEN a ELSE b

\* the square k steps from pos in the direction (dr, dc)
Step(pos, dr, dc, k) == [row |-> pos.row + k * dr, column |-> pos.column + k * dc]

\* the squares at distance 1, 2, .., len from pos in the direction (dr, dc)
Ray(pos, dr, dc, len) == [k \in 1..len |-> Step(pos, dr, dc, k)]

\* the squares of a list of rays
RaySquares(rays) ==
    UNION {{rays[i][k] : k \in 1..Len(rays[i])} : i \in 1..Len(rays)}

\* the result of the last moves() call on the piece, when its kind is `kind`
MovesOf(kind) == pieces[1].kind = kind /\ result.call = "get_moves"

\* C7: for a Rook on any square (r, c), moves() returns exactly 4 rays in the
\* order up, right, down, left, of lengths 8-r, 8-c, r-1, c-1 (an edge
\* direction gives an empty ray); the k-th square of each ray is k steps from
\* the origin in that direction, so the rays together are the 14 other squares
\* of the rook's row and column.  At d4 the lengths are 4, 4, 3, 3.
C7_RookRays ==
    MovesOf(ROOK) =>
        LET pos == pieces[1].position
            r == pos.row
            c == pos.column
            rays == result.ret.to_pos
        IN  /\ Len(rays) = 4
            /\ rays[1] = Ray(pos, 1, 0, 8 - r)
            /\ rays[2] = Ray(pos, 0, 1, 8 - c)
            /\ rays[3] = Ray(pos, -1, 0, r - 1)
            /\ rays[4] = Ray(pos, 0, -1, c - 1)
            /\ Len(rays[1]) + Len(rays[2]) + Len(rays[3]) + Len(rays[4]) = 14
            /\ RaySquares(rays)
                   = {sq \in AllPositions :
                         (sq.row = r \/ sq.column = c) /\ sq # pos}
            /\ (r = 4 /\ c = 4)
                   => <<Len(rays[1]), Len(rays[2]), Len(rays[3]), Len(rays[4])>>
                          = <<4, 4, 3, 3>>

\* C7 witness: moves() of a Rook on d4.
C7_Witness ==
    /\ MovesOf(ROOK)
    /\ pieces[1].position = [row |-> 4, column |-> 4]
    /\ Len(result.ret.to_pos[3]) = 3

\* C8: for a Queen on any square, moves() returns exactly 8 rays in the order
\* up, up-right, right, down-right, down, down-left, left, up-left, each the
\* ray to the board edge in that direction, and each equal to the ray a Rook
\* (the 4 straight directions) or a Bishop (the 4 diagonals) on the same
\* square produces for that direction.
C8_QueenRays ==
    MovesOf(QUEEN) =>
        LET pos == pieces[1].position
            r == pos.row
            c == pos.column
            rays == result.ret.to_pos
            rook == get_moves([pieces[1] EXCEPT !.kind = ROOK]).to_pos
            bishop == get_moves([pieces[1] EXCEPT !.kind = BISHOP]).to_pos
        IN  /\ Len(rays) = 8
            /\ rays[1] = Ray(pos, 1, 0, 8 - r)
            /\ rays[2] = Ray(pos, 1, 1, Min(8 - r, 8 - c))
            /\ rays[3] = Ray(pos, 0, 1, 8 - c)
            /\ rays[4] = Ray(pos, -1, 1, Min(r - 1, 8 - c))
            /\ rays[5] = Ray(pos, -1, 0, r - 1)
            /\ rays[6] = Ray(pos, -1, -1, Min(r - 1, c - 1))
            /\ rays[7] = Ray(pos, 0, -1, c - 1)
            /\ rays[8] = Ray(pos, 1, -1, Min(8 - r, c - 1))
            \* the Rook's rays are up, right, down, left
            /\ <<rays[1], rays[3], rays[5], rays[7]>> = rook
            \* the Bishop's rays are up-right, down-right, down-left, up-left
            /\ <<rays[2], rays[4], rays[6], rays[8]>> = bishop

\* C8 witness: moves() of a Queen on b3, where the eight rays have different
\* squares and lengths 5, 5, 6, 2, 2, 1, 1, 1.
C8_Witness ==
    /\ MovesOf(QUEEN)
    /\ pieces[1].position = [row |-> 3, column |-> 2]
    /\ Len(result.ret.to_pos[3]) = 6
    /\ Len(result.ret.to_pos[4]) = 2

\* the four diagonal directions, and how far the board reaches from (r, c)
\* along each
Diagonals == << <<1, 1>>, <<-1, 1>>, <<-1, -1>>, <<1, -1>> >>

DiagonalLength(pos, d) ==
    Min(IF d[1] = 1 THEN 8 - pos.row ELSE pos.row - 1,
        IF d[2] = 1 THEN 8 - pos.column ELSE pos.column - 1)

\* C9: for a Bishop on any square (r, c), moves() returns exactly 4 rays, one
\* per diagonal; each ray lists the squares at distance 1, 2, .. from the
\* origin along its diagonal and ends at the last on-board square, so its
\* length is the smaller of the row distance and the column distance to the
\* board edge in that direction (up-right: min(8-r, 8-c); down-left:
\* min(r-1, c-1); etc.).
C9_BishopRays ==
    MovesOf(BISHOP) =>
        LET pos == pieces[1].position
            rays == result.ret.to_pos
        IN  /\ Len(rays) = 4
            /\ \E f \in Permutations(1..4) :
                  \A i \in 1..4 :
                      rays[i] = Ray(pos, Diagonals[f[i]][1], Diagonals[f[i]][2],
                                    DiagonalLength(pos, Diagonals[f[i]]))
            /\ RaySquares(rays)
                   = {sq \in AllPositions :
                         /\ sq # pos
                         /\ \/ sq.row - pos.row = sq.column - pos.column
                            \/ sq.row - pos.row = pos.column - sq.column}

\* C9 witness: moves() of a Bishop on b3: rays of lengths 5 (up-right),
\* 2 (down-right), 1 (down-left) and 1 (up-left), 9 squares.
C9_Witness ==
    /\ MovesOf(BISHOP)
    /\ pieces[1].position = [row |-> 3, column |-> 2]
    /\ Cardinality({Len(result.ret.to_pos[i]) : i \in 1..4}) = 3

\* the offsets of a kind, as the claim gives them
ClaimedOffsets(kind) ==
    IF kind = KNIGHT
    THEN {o \in (-2..2) \X (-2..2) :
             {o[1] * o[1], o[2] * o[2]} = {1, 4}}
    ELSE {o \in (-1..1) \X (-1..1) : o # <<0, 0>>}

\* C10: for a Knight or a King on any square, moves() contains exactly one
\* single-square ray for each of the kind's eight offsets whose target is on
\* the board (Knight: (+-1,+-2) and (+-2,+-1); King: the 8 neighbours), in
\* offset-enumeration order, and no ray for an off-board target; generation
\* raises no error.  Knight at a1 gives exactly {b3, c2} and at d4 gives 8
\* squares; King at a1 gives exactly 3 squares and at d4 gives 8.
C10_OffsetRays ==
    \A kind \in {KNIGHT, KING} :
        MovesOf(kind) =>
            LET pos == pieces[1].position
                rays == result.ret.to_pos
                offsets == IF kind = KNIGHT THEN Knight_offset ELSE King_offset
                target(o) == Step(pos, o[1], o[2], 1)
                on_board == SelectSeq(offsets, LAMBDA o : target(o) \in AllPositions)
            IN  /\ err = ""
                /\ Len(offsets) = 8
                /\ {offsets[i] : i \in 1..8} = ClaimedOffsets(kind)
                /\ Len(rays) = Len(on_board)
                /\ \A i \in 1..Len(rays) : rays[i] = <<target(on_board[i])>>
                /\ {rays[i][1] : i \in 1..Len(rays)}
                       = {target(o) : o \in ClaimedOffsets(kind)} \cap AllPositions
                /\ Len(rays) = Cardinality({target(o) : o \in ClaimedOffsets(kind)}
                                               \cap AllPositions)
                /\ (kind = KNIGHT /\ pos = [row |-> 1, column |-> 1])
                       => {rays[i][1] : i \in 1..Len(rays)}
                              = {[row |-> 3, column |-> 2], [row |-> 2, column |-> 3]}
                /\ (kind = KING /\ pos = [row |-> 1, column |-> 1])
                       => Len(rays) = 3
                /\ pos = [row |-> 4, column |-> 4] => Len(rays) = 8

\* C10 witness: moves() of a Knight on g8, where five of the eight targets are
\* off the board and one of the three others is on the last column.
C10_Witness ==
    /\ MovesOf(KNIGHT)
    /\ pieces[1].position = [row |-> 8, column |-> 7]
    /\ Len(result.ret.to_pos) = 3

-----------------------------------------------------------------------------
(* Properties of the pawn (checked under Spec).                            *)

\* the row direction a pawn of this colour moves in
Forward(color) == IF color = WHITE THEN 1 ELSE -1

\* the pawns the board tracks
TrackedPawns == {P \in tracked(grid) : pieces[P].kind = PAWN}

\* an unmoved pawn with both forward squares on the board has one ray: the
\* one-step square, then the two-step square
UnmovedPawnRay ==
    \A P \in TrackedPawns :
        LET pos == pieces[P].position
            d == Forward(pieces[P].color)
        IN  (/\ ~pieces[P].has_moved
             /\ Step(pos, d, 0, 1) \in AllPositions
             /\ Step(pos, d, 0, 2) \in AllPositions)
            => get_moves(pieces[P]).to_pos = <<Ray(pos, d, 0, 2)>>

\* C11 as stated: a pawn with has_moved = false whose one-step and two-step
\* forward squares are both on the board produces a single move-ray with
\* exactly those 2 squares, one step first; after the pawn has been moved once
\* by movePiece, moves() from its new square produces a move-ray containing
\* only the one-step forward square.
C11_AsStated ==
    /\ []UnmovedPawnRay
    /\ [][\A from_pos \in InputPositions, to_pos \in InputPositions :
             (/\ MovePiece(from_pos, to_pos)
              /\ get_piece_at(grid, from_pos) # None
              /\ get_piece_at(grid, from_pos)[1] \in TrackedPawns
              /\ ~pieces[get_piece_at(grid, from_pos)[1]].has_moved)
             => LET P == get_piece_at(grid, from_pos)[1]
                    d == Forward(pieces[P].color)
                IN  get_moves(pieces'[P]).to_pos = << <<Step(to_pos, d, 0, 1)>> >>]_vars

\* C11, amended: as stated, except that after the move the ray holds the
\* one-step forward square of the new square only when that square is on the
\* board; a pawn moved to the last row in its direction (row 8 for White,
\* row 1 for Black) produces a single empty ray.
C11_PawnRayAfterMove ==
    /\ []UnmovedPawnRay
    /\ [][\A from_pos \in InputPositions, to_pos \in InputPositions :
             (/\ MovePiece(from_pos, to_pos)
              /\ get_piece_at(grid, from_pos) # None
              /\ get_piece_at(grid, from_pos)[1] \in TrackedPawns
              /\ ~pieces[get_piece_at(grid, from_pos)[1]].has_moved)
             => LET P == get_piece_at(grid, from_pos)[1]
                    d == Forward(pieces[P].color)
                    rays == get_moves(pieces'[P]).to_pos
                IN  /\ Len(rays) = 1
                    /\ pos_eq(get_moves(pieces'[P]).from_pos, to_pos)
                    /\ IF Step(to_pos, d, 0, 1) \in AllPositions
                       THEN rays[1] = <<Step(to_pos, d, 0, 1)>>
                       ELSE rays[1] = <<>>]_vars

\* C11 witness: a pawn that movePiece has moved one row forward, whose
\* moves() is now the single square in front of it, next to a pawn that has
\* not moved and still has two.
C11_Witness ==
    /\ err = ""
    /\ \E P \in TrackedPawns :
          /\ pieces[P].has_moved
          /\ pieces[P].position.row = 3
          /\ get_moves(pieces[P]).to_pos = << <<[row |-> 4, column |-> 1]>> >>
    /\ \E P \in TrackedPawns :
          /\ ~pieces[P].has_moved
          /\ Len(get_moves(pieces[P]).to_pos[1]) = 2

-----------------------------------------------------------------------------
(* Properties of the pawn's moves and attacks (checked under SpecPiece).   *)

\* the forward targets of the pawn `self`, nearest first: one step, and two
\* steps when it has not moved
PawnTargets(self) ==
    LET d == Forward(self.color)
    IN  IF self.has_moved
        THEN <<Step(self.position, d, 0, 1)>>
        ELSE <<Step(self.position, d, 0, 1), Step(self.position, d, 0, 2)>>

\* C12 as stated: in the result of a pawn's moves() every ray is a
\* single-element ray: the one-step target and (when has_moved is false) the
\* two-step target are each their own one-square ray, and an off-board target
\* contributes no ray, so a White pawn on row 8 or a Black pawn on row 1
\* yields zero rays.
C12_AsStated ==
    [][(GetMoves /\ pieces[1].kind = PAWN)
          => LET rays == result'.ret.to_pos
                 on_board == SelectSeq(PawnTargets(pieces[1]),
                                       LAMBDA sq : sq \in AllPositions)
             IN  /\ \A i \in 1..Len(rays) : Len(rays[i]) = 1
                 /\ Len(rays) = Len(on_board)
                 /\ \A i \in 1..Len(rays) : rays[i] = <<on_board[i]>>]_vars

\* C12, amended: the result of a pawn's moves() has exactly one ray, which
\* lists the one-step target and then (when has_moved is false) the two-step
\* target, each only if it is on the board; a White pawn on row 8 or a Black
\* pawn on row 1 yields one ray with no square in it.
C12_PawnSingleRay ==
    [][(GetMoves /\ pieces[1].kind = PAWN)
          => LET rays == result'.ret.to_pos
                 on_board == SelectSeq(PawnTargets(pieces[1]),
                                       LAMBDA sq : sq \in AllPositions)
                 last_row == IF pieces[1].color = WHITE
                             THEN END_ROW_COL_INDEX ELSE START_ROW_COL_INDEX
             IN  /\ Len(rays) = 1
                 /\ rays[1] = on_board
                 /\ pieces[1].position.row = last_row => rays = << <<>> >>]_vars

\* C12 witness: moves() of a pawn that has not moved, two rows from the last
\* row: one ray of two squares.
C12_Witness ==
    /\ MovesOf(PAWN)
    /\ pieces[1].color = BLACK
    /\ pieces[1].position = [row |-> 3, column |-> 5]
    /\ ~pieces[1].has_moved
    /\ result.ret.to_pos
           = << <<[row |-> 2, column |-> 5], [row |-> 1, column |-> 5]>> >>

\* C13: for a pawn of either colour on any square (r, c), attacks() returns
\* exactly one single-square ray for each of the two diagonal-forward
\* neighbours (row r+1 for White, r-1 for Black; columns c-1 and c+1) that is
\* on the board, and nothing else: 2 rays on files b..g, 1 ray on files a and
\* h, 0 rays when the forward row is off the board; the attack squares never
\* coincide with the pawn's move squares.
C13_PawnAttacks ==
    [][(GetAttacks /\ pieces[1].kind = PAWN)
          => LET pos == pieces[1].position
                 d == Forward(pieces[1].color)
                 rays == result'.ret.to_pos
                 neighbours == {Step(pos, d, -1, 1), Step(pos, d, 1, 1)}
                                   \cap AllPositions
                 forward_on_board == (pos.row + d) \in 1..8
             IN  /\ \A i \in 1..Len(rays) : Len(rays[i]) = 1
                 /\ {rays[i][1] : i \in 1..Len(rays)} = neighbours
                 /\ Len(rays) = Cardinality(neighbours)
                 /\ (forward_on_board /\ pos.column \in 2..7) => Len(rays) = 2
                 /\ (forward_on_board /\ pos.column \in {1, 8}) => Len(rays) = 1
                 /\ ~forward_on_board => Len(rays) = 0
                 /\ RaySquares(rays) \cap RaySquares(get_moves(pieces[1]).to_pos) = {}]_vars

\* C13 witness: attacks() of a Black pawn on h5: the one ray (g4).
C13_Witness ==
    /\ result.call = "get_attacks"
    /\ pieces[1].kind = PAWN
    /\ pieces[1].color = BLACK
    /\ pieces[1].position = [row |-> 5, column |-> 8]
    /\ result.ret.to_pos = << <<[row |-> 4, column |-> 7]>> >>

-----------------------------------------------------------------------------
(* Move generation on the board (checked under Spec).                      *)

\* a newly created piece of the kind, colour and position of `self`
Fresh(self) == Piece(self.kind, self.color, self.position)

\* the piece objects created so far, on the board or not
Heap == 1..Len(pieces)

\* the piece objects a step creates or changes a field of
Touched ==
    IF pieces' = pieces
    THEN {}
    ELSE {P \in 1..Len(pieces') : P \notin Heap \/ pieces'[P] # pieces[P]}

\* `self` returns what a newly created piece of its kind, colour and position
\* returns
AsFresh(self) ==
    /\ get_moves(self) = get_moves(Fresh(self))
    /\ get_attacks(self) = get_attacks(Fresh(self))

\* `self` returns what a newly created piece of its kind, colour and position
\* returns once given the has_moved flag of `self`, and the flag matters only
\* to the moves of a pawn
AsFreshWithFlag(self) ==
    /\ get_moves(self) = get_moves([Fresh(self) EXCEPT !.has_moved = self.has_moved])
    /\ get_attacks(self) = get_attacks(Fresh(self))
    /\ self.kind # PAWN => get_moves(self) = get_moves(Fresh(self))

\* C14 as stated: moves() and attacks() are a function of the piece's kind,
\* colour and position alone: every piece, when the board is built and
\* whenever a call creates it or changes one of its fields, returns what a
\* newly created piece of its kind, colour and position returns, and the
\* pieces found on a square before and after a call return equal results
\* when their kind and colour are equal.
C14_AsStated ==
    /\ \A P \in Heap : AsFresh(pieces[P])
    /\ [][\A P \in Touched : AsFresh(pieces'[P])]_vars
    /\ [][\A pos \in InputPositions :
             (/\ get_piece_at(grid, pos) # None
              /\ get_piece_at(grid', pos) # None)
             => LET a == pieces[get_piece_at(grid, pos)[1]]
                    b == pieces'[get_piece_at(grid', pos)[1]]
                IN  (a.kind = b.kind /\ a.color = b.color)
                    => /\ get_moves(a) = get_moves(b)
                       /\ get_attacks(a) = get_attacks(b)]_vars

\* C14, amended: moves() and attacks() are a function of the piece's kind,
\* colour, position and has_moved flag alone, and has_moved matters only to
\* the moves() of a pawn: two pieces that agree on these return equal
\* results in any two reachable board states, whatever squares are occupied,
\* whatever moves were made before and whether or not they are captured.
C14_GenerationIsLocal ==
    /\ \A P \in Heap : AsFreshWithFlag(pieces[P])
    /\ [][\A P \in Touched : AsFreshWithFlag(pieces'[P])]_vars
    /\ [][\A pos \in InputPositions :
             (/\ get_piece_at(grid, pos) # None
              /\ get_piece_at(grid', pos) # None)
             => LET a == pieces[get_piece_at(grid, pos)[1]]
                    b == pieces'[get_piece_at(grid', pos)[1]]
                IN  (a.kind = b.kind /\ a.color = b.color)
                    => /\ a.has_moved = b.has_moved => get_moves(a) = get_moves(b)
                       /\ a.kind # PAWN => get_moves(a) = get_moves(b)
                       /\ get_attacks(a) = get_attacks(b)]_vars

\* C14 witness: two piece objects of the same kind, colour and position, one
\* captured on an earlier layout and one on the board of a later setup, with
\* other squares of the board emptied by moves; both return the same moves.
C14_Witness ==
    /\ nsetups > 0
    /\ nmoves > 0
    /\ \E Q \in 1..32 :
          /\ pieces[Q].is_die
          /\ \E P \in tracked(grid) :
                /\ P # Q
                /\ pieces[P].kind = pieces[Q].kind
                /\ pieces[P].color = pieces[Q].color
                /\ pos_eq(pieces[P].position, pieces[Q].position)
                /\ pieces[P].has_moved = pieces[Q].has_moved
                /\ get_moves(pieces[P]) = get_moves(pieces[Q])

-----------------------------------------------------------------------------
(* Properties of the pieces' flags (checked under SpecBoardPieces).        *)

\* the piece on the square, when there is one
PieceAt(pos) == get_piece_at(grid, pos)[1]

\* the step is a call of kill() on the piece P, by a caller or by move_piece
\* on its target
KillCalledOn(P) ==
    \/ \E pos \in PieceSquares :
          KillAt(pos) /\ PieceAt(pos) = P
    \/ \E from_pos \in PieceSquares, to_pos \in PieceSquares :
          /\ MovePiece(from_pos, to_pos)
          /\ get_piece_at(grid, from_pos) # None
          /\ get_piece_at(grid, to_pos) = Some(P)

\* the step is a call of move() on the piece P, by a caller or by move_piece
\* on the piece it moves
MoveCalledOn(P) ==
    \/ \E pos \in PieceSquares :
          MoveAt(pos) /\ PieceAt(pos) = P
    \/ \E from_pos \in PieceSquares, to_pos \in PieceSquares :
          /\ MovePiece(from_pos, to_pos)
          /\ get_piece_at(grid, from_pos) = Some(P)

\* C15: for every piece object, captured and has_moved are false at creation
\* and are one-way: along any sequence of movePiece, setupInitialPositions,
\* moves(), attacks(), kill() and move() calls, a flag that is true stays
\* true, captured becomes true only through kill() and has_moved only
\* through move(), and a direct assignment to either flag fails with an
\* error and leaves the flag unchanged.
C15_FlagsOneWay ==
    /\ \A P \in Heap : ~pieces[P].is_die /\ ~pieces[P].has_moved
    /\ [][/\ \A P \in Touched :
                IF P \notin Heap
                THEN ~pieces'[P].is_die /\ ~pieces'[P].has_moved
                ELSE /\ pieces[P].is_die => pieces'[P].is_die
                     /\ pieces[P].has_moved => pieces'[P].has_moved
                     /\ (~pieces[P].is_die /\ pieces'[P].is_die)
                           => KillCalledOn(P)
                     /\ (~pieces[P].has_moved /\ pieces'[P].has_moved)
                           => MoveCalledOn(P)
          /\ \A pos \in PieceSquares, value \in BOOLEAN :
                (SetIsDieAt(pos, value) \/ SetHasMovedAt(pos, value))
                => /\ err' = "PieceError"
                   /\ pieces'[PieceAt(pos)].is_die = pieces[PieceAt(pos)].is_die
                   /\ pieces'[PieceAt(pos)].has_moved
                          = pieces[PieceAt(pos)].has_moved]_vars

\* C15 witness: a direct assignment has just failed on a board that holds a
\* piece killed by kill() where it stood, never moved, and a piece that has
\* moved; a setup has replaced an earlier layout whose captured piece is
\* still captured.
C15_Witness ==
    /\ err = "PieceError"
    /\ nsetups > 0
    /\ \E P \in 1..32 : pieces[P].is_die /\ P \notin tracked(grid)
    /\ \E P \in tracked(grid) : pieces[P].is_die /\ ~pieces[P].has_moved
    /\ \E P \in tracked(grid) : pieces[P].has_moved

-----------------------------------------------------------------------------
(* Properties of the coordinate constructors (checked under                *)
(* SpecCoordinate).                                                        *)

\* a value the claim accepts as a file: a single letter of 'a'..'h' in either
\* case, or an integer of 1..8
IsFileValue(value) ==
    \/ /\ value.type = "str"
       /\ Len(value.v) = 1
       /\ value.v[1] \in {"a", "b", "c", "d", "e", "f", "g", "h",
                          "A", "B", "C", "D", "E", "F", "G", "H"}
    \/ /\ value.type = "int"
       /\ value.v \in 1..8

\* C16 as stated: constructing a file succeeds exactly when the value is a
\* single letter in 'a'..'h' (either case) or an integer in 1..8; every other
\* value, in particular the empty string and every multi-character string,
\* fails with ChessFileError.
C16_AsStated ==
    result.call = "ChessFile"
        => /\ IsFileValue(arg.column) => err = "" /\ result.ret \in 1..8
           /\ ~IsFileValue(arg.column) => err = "ChessFileError"

\* C16 witness: ChessFile("bc"), a str of two characters, has returned the
\* file b.
C16_Witness ==
    /\ result.call = "ChessFile"
    /\ arg.column.type = "str"
    /\ arg.column.v = <<"b", "c">>
    /\ err = ""
    /\ result.ret = 2

\* rows, int columns and position numbers just outside their ranges
BadAxis == {START_ROW_COL_INDEX - 1, END_ROW_COL_INDEX + 1}
BadNumbers == {START_BOARD_INDEX - 1, END_BOARD_INDEX + 1}

\* a column out of range: an int outside 1..8 or a single letter outside
\* 'a'..'h'
OutOfRangeColumn(value) ==
    /\ ~IsFileValue(value)
    /\ value.type = "str" => Len(value.v) = 1

\* the error kinds of an out-of-range row, column and position number, over
\* the constructor and the conversions
RowErrors ==
    {PiecePosition(r, PyInt(1)).exc : r \in BadAxis}
        \cup {convert_row_column_to_position_number(r, 1).exc : r \in BadAxis}

ColumnErrors ==
    {PiecePosition(1, PyInt(c)).exc : c \in BadAxis}
        \cup {PiecePosition(1, PyStr(<<"i">>)).exc}
        \cup {convert_row_column_to_position_number(1, c).exc : c \in BadAxis}

NumberErrors ==
    {convert_position_number_to_row_column(n).exc : n \in BadNumbers}

\* the last call was given an out-of-range row / column / position number,
\* and nothing else out of range
BadRowGiven ==
    /\ result.call \in {"PiecePosition", "convert_row_column_to_position_number"}
    /\ arg.row \in BadAxis
    /\ IsFileValue(arg.column)

BadColumnGiven ==
    /\ result.call \in {"PiecePosition", "convert_row_column_to_position_number"}
    /\ arg.row \notin BadAxis
    /\ OutOfRangeColumn(arg.column)

BadNumberGiven ==
    /\ result.call = "convert_position_number_to_row_column"
    /\ arg.n \in BadNumbers

-----------------------------------------------------------------------------
(* Properties of the MoveInfo results (checked under SpecPiece).           *)

\* C18 as stated: for every piece kind, the result of attacks() has
\* is_attack = true and the result of moves() has is_attack = false; in both
\* the origin equals the piece's current position.
C18_AsStated ==
    /\ result.call = "get_attacks"
           => /\ result.ret.is_attack = TRUE
              /\ pos_eq(result.ret.from_pos, pieces[1].position)
    /\ result.call = "get_moves"
           => /\ result.ret.is_attack = FALSE
              /\ pos_eq(result.ret.from_pos, pieces[1].position)

\* C18 witness: attacks() of a Rook has returned a result with
\* is_attack = false, whose rays are the rook's moves.
C18_Witness ==
    /\ result.call = "get_attacks"
    /\ pieces[1].kind = ROOK
    /\ result.ret.is_attack = FALSE
    /\ result.ret = get_moves(pieces[1])

-----------------------------------------------------------------------------
(* Properties of coordinate equality (checked under SpecCoordinate).       *)

\* the number of a file letter, as the claim counts them: a = 1, .., h = 8
LetterNumber(ch) ==
    CASE ch \in {"a", "A"} -> 1
      [] ch \in {"b", "B"} -> 2
      [] ch \in {"c", "C"} -> 3
      [] ch \in {"d", "D"} -> 4
      [] ch \in {"e", "E"} -> 5
      [] ch \in {"f", "F"} -> 6
      [] ch \in {"g", "G"} -> 7
      [] ch \in {"h", "H"} -> 8

\* C19: Coordinate equality is structural: two Coordinates are equal exactly
\* when their rows and column numbers are equal, whichever way the column
\* was given; for every file letter L (either case) with number n and every
\* row r, the Coordinate built from (L, r) equals the one built from (n, r)
\* and both have the same position_number, e.g. ('e', 2) equals (5, 2).
C19_StructuralEquality ==
    (/\ result.call = "PiecePosition"
     /\ arg.row \in 1..8
     /\ IsFileValue(arg.column))
    => /\ err = ""
       /\ \A r \in 1..8, c \in 1..8 :
             LET other == PiecePosition(r, PyInt(c))
             IN  /\ other.exc = ""
                 /\ pos_eq(result.ret, other.val)
                        <=> (r = arg.row
                             /\ c = IF arg.column.type = "str"
                                    THEN LetterNumber(arg.column.v[1])
                                    ELSE arg.column.v)
                 /\ pos_eq(result.ret, other.val)
                        => get_position_number(result.ret)
                               = get_position_number(other.val)
       /\ arg.column.type = "str"
             => LET n == LetterNumber(arg.column.v[1])
                    by_number == PiecePosition(arg.row, PyInt(n))
                IN  /\ by_number.exc = ""
                    /\ pos_eq(result.ret, by_number.val)
                    /\ pos_eq(by_number.val, result.ret)
                    /\ get_position_number(result.ret)
                           = get_position_number(by_number.val)
                    /\ get_position_number(result.ret) = (arg.row - 1) * 8 + n

\* C19 witness: PiecePosition(2, 'e') has been built: row 2, file number 5,
\* position number 13.
C19_Witness ==
    /\ result.call = "PiecePosition"
    /\ arg.row = 2
    /\ arg.column.type = "str"
    /\ arg.column.v = <<"e">>
    /\ err = ""
    /\ pos_eq(result.ret, PiecePosition(2, PyInt(5)).val)
    /\ get_position_number(result.ret) = 13

-----------------------------------------------------------------------------
(* Properties of the board mapping (checked under Spec).                   *)

\* C20: in every state reachable from a new Board by any sequence of
\* setupInitialPositions and movePiece calls, successful or failing, every
\* key of the board mapping is in 1..64, the piece stored under key k has a
\* position whose position_number is k, no piece is stored under two keys
\* (and no key holds two pieces), and the mapping never holds more than 32
\* pieces.
C20_MappingInvariant ==
    /\ \A i \in 1..Len(grid) :
          /\ grid[i].key \in START_BOARD_INDEX..END_BOARD_INDEX
          /\ grid[i].piece \in Heap
          /\ get_position_number(pieces[grid[i].piece].position) = grid[i].key
          /\ get_piece_at(grid, pieces[grid[i].piece].position) = Some(grid[i].piece)
    /\ \A i \in 1..Len(grid), j \in 1..Len(grid) :
          i # j => grid[i].piece # grid[j].piece /\ grid[i].key # grid[j].key
    /\ Len(grid) <= 32
    /\ Len(all_pieces(grid)) <= 32

\* C20 witness: a move from an empty square has just failed on a board on
\* which a capture has left 31 pieces, one of them on a square it did not
\* start on.
C20_Witness ==
    /\ err = "BoardError"
    /\ Len(grid) = 31
    /\ \E i \in 1..Len(grid) :
          /\ pieces[grid[i].piece].has_moved
          /\ grid[i].key = 49
          /\ pieces[grid[i].piece].color = WHITE

\* C21 as stated: a movePiece never captures the piece it moves: for every
\* successful movePiece(from, to), including the call with from = to, the
\* moving piece's captured flag is the same after the call as before, so a
\* piece that is on the board after any sequence of moves is never marked
\* captured.
C21_AsStated ==
    /\ [](\A P \in tracked(grid) : ~pieces[P].is_die)
    /\ [][\A from_pos \in InputPositions, to_pos \in InputPositions :
             (/\ MovePiece(from_pos, to_pos)
              /\ get_piece_at(grid, from_pos) # None
              /\ err' = "")
             => LET P == get_piece_at(grid, from_pos)[1]
                IN  pieces'[P].is_die = pieces[P].is_die]_vars

\* C21 witness: after movePiece(from, from) the piece is still on its square,
\* returned by get_piece_at and all_pieces, and is marked captured.
C21_Witness ==
    /\ err = ""
    /\ nmoves = 1
    /\ Len(all_pieces(grid)) = 32
    /\ \E P \in tracked(grid) :
          /\ pieces[P].is_die
          /\ pieces[P].has_moved
          /\ get_piece_at(grid, pieces[P].position) = Some(P)

-----------------------------------------------------------------------------
(* The frame of a move (checked under SpecBoardPieces).                    *)

\* the step is a successful move_piece call that moves the piece P
MovedBy(P) ==
    /\ nmoves' = nmoves + 1
    /\ err' = ""
    /\ \E from_pos \in PieceSquares, to_pos \in PieceSquares :
          /\ get_piece_at(grid, from_pos) = Some(P)
          /\ MovePiece(from_pos, to_pos)

\* every item of g whose key is not in keys is an item of h with the same piece
SameSlotsOutside(g, h, keys) ==
    \A i \in 1..Len(g) :
        g[i].key \notin keys => grid_get(h, g[i].key) = Some(g[i].piece)

\* C22: a successful movePiece(from, to) changes nothing but the two squares
\* involved: every slot other than `from` and `to` holds the same piece as
\* before, and every piece other than the mover and the prior occupant of
\* `to` keeps its position, captured flag and has_moved flag; the only flag
\* changes are has_moved of the mover and captured of the prior occupant.
\* No operation other than a successful movePiece changes any piece's
\* position.
C22_MoveFrame ==
    [][/\ \A from_pos \in PieceSquares, to_pos \in PieceSquares :
             (/\ nmoves' = nmoves + 1
              /\ err' = ""
              /\ get_piece_at(grid, from_pos) # None
              /\ MovePiece(from_pos, to_pos))
             => LET P == get_piece_at(grid, from_pos)[1]
                    target == get_piece_at(grid, to_pos)
                    keys == {get_position_number(from_pos),
                             get_position_number(to_pos)}
                IN  /\ SameSlotsOutside(grid, grid', keys)
                    /\ SameSlotsOutside(grid', grid, keys)
                    /\ Len(pieces') = Len(pieces)
                    /\ \A X \in Touched : X = P \/ target = Some(X)
                    /\ target # Some(P) => pieces'[P].is_die = pieces[P].is_die
                    /\ \A Q \in Heap :
                          (target = Some(Q) /\ Q # P)
                          => /\ pieces'[Q].has_moved = pieces[Q].has_moved
                             /\ pieces'[Q].position = pieces[Q].position
      /\ \A X \in Touched :
             (X \in Heap /\ pieces'[X].position # pieces[X].position)
             => MovedBy(X)]_vars

\* C22 witness: one move has captured a piece on another square; the 30
\* other pieces are where and as they were set up.
C22_Witness ==
    /\ err = ""
    /\ nmoves = 1
    /\ nsetups = 0
    /\ Len(all_pieces(grid)) = 31
    /\ \E P \in tracked(grid), Q \in Heap \ tracked(grid) :
          /\ pieces[P].has_moved /\ ~pieces[P].is_die
          /\ pieces[Q].is_die /\ ~pieces[Q].has_moved
          /\ \A X \in Heap \ {P, Q} :
                pieces[X] = Piece(pieces[X].kind, pieces[X].color, pieces[X].position)

-----------------------------------------------------------------------------
(* Interleaved move_piece calls (checked under SpecThreads).               *)

\* the pieces that are on no square of the mapping
Absent == Heap \ tracked(grid)

NoCallInProgress == \A t \in Threads : ~InProgress(t)

\* C23: while the movePiece calls on the board are serialized, every piece
\* that left the mapping since the setup is marked captured and the only
\* failure is the no-piece-at-source error; a call fails with another error
\* only at its delete step, and only after calls were interleaved.  (The
\* states interleaved calls can reach beyond these are C23_Witness.)
C23_SerializedCalls ==
    /\ [](~arg.overlapped
            => /\ err \in {"", "BoardError"}
               /\ \A t \in Threads : arg.calls[t].exc \in {"", "BoardError"}
               /\ NoCallInProgress => \A P \in Absent : pieces[P].is_die)
    /\ [][\A t \in Threads :
             arg'.calls[t].exc \notin {"", "BoardError"}
             => \/ arg'.calls[t] = arg.calls[t]
                \/ /\ DeleteSource(t)
                   /\ arg.overlapped
                   /\ arg'.calls[t].exc = "KeyError"
                   /\ grid_get(grid, arg.calls[t].key_from) = None]_vars

\* C23 witness: after three calls, two of them interleaved with the third,
\* a mover is on no square although it was never captured (another mover
\* sits on the square it was sent to), and a call on a source that a
\* concurrent call had emptied ended with KeyError.
C23_Witness ==
    /\ NoCallInProgress
    /\ arg.overlapped
    /\ nmoves = 3
    /\ \E P \in Absent, Q \in tracked(grid) :
          /\ ~pieces[P].is_die /\ pieces[P].has_moved
          /\ ~pieces[Q].is_die /\ pieces[Q].has_moved
          /\ pos_eq(pieces[P].position, pieces[Q].position)
          /\ get_piece_at(grid, pieces[P].position) = Some(Q)
    /\ \E t \in Threads : arg.calls[t].exc = "KeyError"

-----------------------------------------------------------------------------
(* Queries between the statements of a move (checked under SpecReader).    *)

\* the writer's call has killed the occupant of its destination and has not
\* yet deleted its source
AfterKill ==
    /\ arg.calls[Writer].pc = "delete_source"
    /\ arg.calls[Writer].target # None

\* the writer's call has set the mover's position and has not yet installed
\* the mover at its destination
BeforeInstall == arg.calls[Writer].pc \in {"mark_moved", "install"}

\* C24: movePiece is not atomic for readers: a pieceAt or allPieces query
\* made between the steps of a movePiece(from, to) in progress sees, after
\* the kill step, the prior occupant of `to` marked captured while
\* pieceAt(to) still returns it, and then, once the position is set and
\* until the mover is installed, the mover absent from the mapping
\* (pieceAt(from) empty, pieceAt(to) not the mover, allPieces without it)
\* while its position already equals `to`.
C24_ReadersSeeIntermediate ==
    [][/\ \A pos \in CallSquares :
             (GetPieceAt(pos) /\ AfterKill
                /\ get_position_number(pos) = arg.calls[Writer].key_to)
             => /\ result'.ret = arg.calls[Writer].target
                /\ pieces'[result'.ret[1]].is_die
       /\ \A pos \in CallSquares :
             (GetPieceAt(pos) /\ BeforeInstall)
             => /\ get_position_number(pos) = arg.calls[Writer].key_from
                      => result'.ret = None
                /\ get_position_number(pos) = arg.calls[Writer].key_to
                      => result'.ret # arg.calls[Writer].piece
                /\ pos_eq(pieces'[arg.calls[Writer].piece[1]].position,
                          arg.calls[Writer].to_pos)
       /\ (AllPieces /\ BeforeInstall)
             => /\ \A i \in 1..Len(result'.ret) :
                      result'.ret[i] # arg.calls[Writer].piece[1]
                /\ pos_eq(pieces'[arg.calls[Writer].piece[1]].position,
                          arg.calls[Writer].to_pos)]_vars

\* C24 witness: during the first move after setup, a capture, a query has
\* just returned the captured occupant as the piece on the destination
\* while the mover, whose position is already the destination, is on no
\* square.
C24_Witness ==
    /\ nmoves = 1
    /\ BeforeInstall
    /\ result.call = "get_piece_at"
    /\ result.ret = arg.calls[Writer].target
    /\ result.ret # None
    /\ result.ret # arg.calls[Writer].piece
    /\ pieces[result.ret[1]].is_die
    /\ grid_get(grid, arg.calls[Writer].key_to) = result.ret
    /\ grid_get(grid, arg.calls[Writer].key_from) = None
    /\ arg.calls[Writer].piece[1] \notin tracked(grid)
    /\ pos_eq(pieces[arg.calls[Writer].piece[1]].position,
              arg.calls[Writer].to_pos)

====
